---- MODULE Spec2Model ----
(***************************************************************************)
(* A model of the schema-driven query execution core of COBEY-DB-API:      *)
(*   - the migration ledger manager  (src/src/db/migrations/manager.py)    *)
(*   - the SQL statement builder     (src/src/db/queries/builder.py)       *)
(*   - the query executor and pool   (src/src/db/queries/executor.py,      *)
(*                                    src/src/db/connection.py)            *)
(*   - the model registry and the request handlers' dependencies           *)
(*                                   (src/src/models/dynamic.py,           *)
(*                                    src/src/api/dependencies.py)         *)
(*   - the schema introspection      (src/src/db/introspection.py)         *)
(* Each part has its own specification over the shared variable tuple; the *)
(* variables of the other parts stay at their initial values.              *)
(***************************************************************************)
EXTENDS Integers, Sequences, FiniteSets, TLC

(***************************************************************************)
(* Bounds of the model                                                     *)
(***************************************************************************)
\* number of apply_migrations runs (each run is one call of the function)
NumRuns == 2
\* number of .sql files in the migration directory
NumFiles == 3

VARIABLES
    \* ---- the database as the migration manager sees it
    ledgerExists,   \* the table "migrations" exists
    ledger,         \* names in migrations.name (UNIQUE)
    schema,         \* schema[f]: how often file f's SQL effect has been committed
    \* ---- one apply_migrations call per run
    rpc,            \* position of the run in apply_migrations
    rclear,         \* its clear_existing argument
    rpending,       \* pending_migrations (a list, in application order)
    ridx,           \* index into pending_migrations of the loop
    rlog,           \* files handed to conn.execute(sql) by the run, in order
    rcommitted,     \* files whose SQL this run executed without error
    rrecorded,      \* files this run inserted into the ledger
    rfailed,        \* the file whose application raised (0: none)
    rerr,           \* the exception that left apply_migrations ("none": none)
    rstart,         \* the database as it was when the run was called
    rprev,          \* how the run before this one ended, when it was called
    lastStarted,    \* the run called last (0: none yet)
    lastOutcome,    \* how the run that ended last ended
    \* ---- two SQLBuilder objects driven by the same calls with other values
    bld,            \* bld[x]: the fields sql, params, _has_where of builder x
    bphase,         \* "none": no builder yet, "seeded", "raised" (ValueError)
    bcalls,         \* number of chained calls made on the builders
    bgiven,         \* bgiven[x]: the values handed to builder x so far
    bresult,        \* bresult[x]: what build() returned last, <<text, params>>
    bbuilt,         \* build() has been called
    \* ---- the executor, the pool and one table
    pool,           \* db.pool: "unset" (None), "open", or "closed" (the
                    \* pool object after pool.close())
    inUse,          \* the calls that hold a connection of the pool
    rows,           \* primary-key values of the committed rows of the table
    cpc,            \* position of each call
    cop,            \* the method called ("none": not called yet)
    ckey,           \* its record id (the primary-key value of its data)
    cempty,         \* update only: data is empty and replace is False
    cerr,           \* the exception the call raised ("none": none)
    ctx,            \* number of transactions the call has begun
    cwrite,         \* the uncommitted write of its transaction
    cfull,          \* every connection was in use when the call was made
    cconc,          \* create only: a create of the same key was under way
                    \* when the call was made, or was made while it was
    cpool,          \* db.pool as transaction() found it ("none": the call
                    \* has not entered transaction())
    \* ---- the model registry (dynamic_models) and the request handlers
    initialized,    \* dynamic_models._initialized
    models,         \* the table names that are keys of dynamic_models._models
    hpc,            \* position of each request: "idle", "resolving" (its
                    \* dependencies are being resolved), "handling", "failed"
    htable,         \* the table of the router the request went to
    hloaded,        \* _initialized as it was when the request read the registry
    herr,           \* the exception its dependency raised ("none": none)
    \* ---- the tasks that call load_models, initialize and close
    lpc,            \* position of each task: "idle", "introspecting" (inside
                    \* await generate_models(pool)), "returned", "raised"
    lkind,          \* the method it called last ("none": none yet)
    linit,          \* _initialized as it was when the call was made
    lgen,           \* the call invoked generate_models
    lset,           \* the call assigned self._models
    lerr,           \* the exception that left the call ("none": none)
    \* ---- one QueryExecutor, its table, and the calls made on it in turn
    xtable,         \* self.table_name ("none": no executor constructed yet)
    xerr,           \* the exception QueryExecutor(db, model) raised last
    xmodel,         \* the class name of the model it was given ("none": no
                    \* construction yet)
    store,          \* record ids of the rows of the table (the first n ids)
    last,           \* the call made last, with its arguments and its outcome
    prev,           \* the call made before it
    \* ---- the catalog of the schema and the result of get_table_info
    keyUsage,       \* the rows of key_column_usage joined with
                    \* table_constraints: [table, column, type]
    tinfo           \* the list get_table_info returned for this catalog
                    \* (<<>>: not called since the catalog changed)

migVars == <<ledgerExists, ledger, schema, rpc, rclear, rpending, ridx, rlog,
             rcommitted, rrecorded, rfailed, rerr, rstart, rprev, lastStarted,
             lastOutcome>>

bldVars == <<bld, bphase, bcalls, bgiven, bresult, bbuilt>>

exVars == <<pool, inUse, rows, cpc, cop, ckey, cempty, cerr, ctx, cwrite,
            cfull, cconc, cpool>>

regVars == <<initialized, models, hpc, htable, hloaded, herr, lpc, lkind,
             linit, lgen, lset, lerr>>

recVars == <<xtable, xerr, xmodel, store, last, prev>>

introVars == <<keyUsage, tinfo>>

vars == <<migVars, bldVars, exVars, regVars, recVars, introVars>>

otherThanMigration == <<bldVars, exVars, regVars, recVars, introVars>>

otherThanBuilder == <<migVars, exVars, regVars, recVars, introVars>>

otherThanExecutor == <<migVars, bldVars, regVars, recVars, introVars>>

otherThanRegistry == <<migVars, bldVars, recVars, introVars>>

loadVars == <<lpc, lkind, linit, lgen, lset, lerr>>

requestVars == <<hpc, htable, hloaded, herr>>

otherThanRecords == <<migVars, bldVars, exVars, regVars, introVars>>

otherThanIntrospection == <<migVars, bldVars, exVars, regVars, recVars>>

Runs == 1..NumRuns

(***************************************************************************)
(* Helpers on sequences and sets                                           *)
(***************************************************************************)
Range(s) == {s[i] : i \in 1..Len(s)}

Min(S) == CHOOSE x \in S : \A y \in S : x <= y

Max(S) == CHOOSE x \in S : \A y \in S : x >= y

RECURSIVE SortDesc(_)
\* a wrong order of application: descending file names
SortDesc(S) ==
    IF S = {} THEN <<>> ELSE <<Max(S)>> \o SortDesc(S \ {Max(S)})

RECURSIVE Sorted(_)
\* sorted([...]) of manager.py line 63: ascending order of the names
Sorted(S) ==
    IF S = {} THEN <<>> ELSE <<Min(S)>> \o Sorted(S \ {Min(S)})

(***************************************************************************)
(* The migration directory.  A file name is modelled by its numeric prefix *)
(* ("001_...", "002_..."), so lexical order of names is numeric order of   *)
(* stems; the directory also holds an entry that is no .sql file.          *)
(***************************************************************************)
DirEntries ==
    {[stem |-> i, ext |-> "sql"] : i \in 1..NumFiles}
        \cup {[stem |-> 0, ext |-> "py"]}

\* os.listdir filtered by f.endswith('.sql')
SqlFiles == {e.stem : e \in {d \in DirEntries : d.ext = "sql"}}

\* migration_files, manager.py lines 63-66
MigrationFiles == Sorted(SqlFiles)

\* a pending computation that forgets the ledger
PendingIgnoringApplied(applied) == MigrationFiles

\* pending_migrations, manager.py line 70
PendingMigrations(applied) ==
    LET keep(f) == f \notin applied IN SelectSeq(MigrationFiles, keep)

Snapshot == [exists |-> ledgerExists, names |-> ledger, schema |-> schema]

MigInit ==
    /\ ledgerExists = FALSE
    /\ ledger = {}
    /\ schema = [f \in SqlFiles |-> 0]
    /\ rpc = [r \in Runs |-> "idle"]
    /\ rclear = [r \in Runs |-> FALSE]
    /\ rpending = [r \in Runs |-> <<>>]
    /\ ridx = [r \in Runs |-> 0]
    /\ rlog = [r \in Runs |-> <<>>]
    /\ rcommitted = [r \in Runs |-> {}]
    /\ rrecorded = [r \in Runs |-> {}]
    /\ rfailed = [r \in Runs |-> 0]
    /\ rerr = [r \in Runs |-> "none"]
    /\ rstart = [r \in Runs |-> [exists |-> FALSE, names |-> {},
                                 schema |-> [f \in SqlFiles |-> 0]]]
    /\ rprev = [r \in Runs |-> "none"]
    /\ lastStarted = 0
    /\ lastOutcome = "none"

\* apply_migrations leaves through "finally: await db.disconnect()"
Finish(r, outcome, file, err) ==
    /\ rpc' = [rpc EXCEPT ![r] = outcome]
    /\ rfailed' = [rfailed EXCEPT ![r] = file]
    /\ rerr' = [rerr EXCEPT ![r] = err]
    /\ lastOutcome' = IF outcome = "done" THEN "ok" ELSE "err"

\* apply_migrations(clear_existing) is called
StartRun(r, clr) ==
    /\ rpc[r] = "idle"
    /\ rpc' = [rpc EXCEPT ![r] = "connect"]
    /\ rclear' = [rclear EXCEPT ![r] = clr]
    /\ rstart' = [rstart EXCEPT ![r] = Snapshot]
    /\ rprev' = [rprev EXCEPT ![r] = lastOutcome]
    /\ lastStarted' = r
    /\ UNCHANGED <<ledgerExists, ledger, schema, rpending, ridx, rlog,
                   rcommitted, rrecorded, rfailed, rerr, lastOutcome>>
    /\ UNCHANGED otherThanMigration

\* a run is called only when no other run is under way
StartRunInTurn(r, clr) ==
    /\ \A q \in Runs : rpc[q] \in {"idle", "done", "failed"}
    /\ StartRun(r, clr)

\* await db.connect(); async with db.pool.acquire() as conn
ConnectRun(r) ==
    /\ rpc[r] = "connect"
    /\ \/ /\ rpc' = [rpc EXCEPT ![r] = IF rclear[r] THEN "clear" ELSE "verify"]
          /\ UNCHANGED <<rfailed, rerr, lastOutcome>>
       \/ Finish(r, "failed", 0, "ConnectionError")
    /\ UNCHANGED <<ledgerExists, ledger, schema, rclear, rpending, ridx, rlog,
                   rcommitted, rrecorded, rstart, rprev, lastStarted>>
    /\ UNCHANGED otherThanMigration

\* a clear step that leaves the ledger as it is
ClearNothing(r) ==
    /\ rpc[r] = "clear"
    /\ rpc' = [rpc EXCEPT ![r] = "verify"]
    /\ UNCHANGED <<ledgerExists, ledger, schema, rclear, rpending, ridx, rlog,
                   rcommitted, rrecorded, rfailed, rerr, rstart, rprev,
                   lastStarted, lastOutcome>>
    /\ UNCHANGED otherThanMigration

\* clear_migrations_table: DROP TABLE IF EXISTS migrations
ClearMigrationsTable(r) ==
    /\ rpc[r] = "clear"
    /\ ledgerExists' = FALSE
    /\ ledger' = {}
    /\ rpc' = [rpc EXCEPT ![r] = "verify"]
    /\ UNCHANGED <<schema, rclear, rpending, ridx, rlog, rcommitted, rrecorded,
                   rfailed, rerr, rstart, rprev, lastStarted, lastOutcome>>
    /\ UNCHANGED otherThanMigration

\* get_applied_migrations, first statement: CREATE TABLE IF NOT EXISTS migrations
VerifyLedger(r) ==
    /\ rpc[r] = "verify"
    /\ ledgerExists' = TRUE
    /\ rpc' = [rpc EXCEPT ![r] = "select"]
    /\ UNCHANGED <<ledger, schema, rclear, rpending, ridx, rlog, rcommitted,
                   rrecorded, rfailed, rerr, rstart, rprev, lastStarted,
                   lastOutcome>>
    /\ UNCHANGED otherThanMigration

\* get_applied_migrations, second statement (SELECT name FROM migrations), then
\* the listing of the directory and the pending list; "return" when it is empty
SelectApplied(r) ==
    /\ rpc[r] = "select"
    /\ IF ~ledgerExists
       THEN /\ Finish(r, "failed", 0, "UndefinedTableError")
            /\ UNCHANGED <<rpending, ridx>>
       ELSE LET pending == PendingMigrations(ledger) IN
            /\ rpending' = [rpending EXCEPT ![r] = pending]
            /\ IF pending = <<>>
               THEN /\ Finish(r, "done", 0, "none")
                    /\ UNCHANGED ridx
               ELSE /\ rpc' = [rpc EXCEPT ![r] = "execute"]
                    /\ ridx' = [ridx EXCEPT ![r] = 1]
                    /\ UNCHANGED <<rfailed, rerr, lastOutcome>>
    /\ UNCHANGED <<ledgerExists, ledger, schema, rclear, rlog, rcommitted,
                   rrecorded, rstart, rprev, lastStarted>>
    /\ UNCHANGED otherThanMigration

\* await conn.execute(sql): the file's SQL runs as one implicit transaction of
\* its own, and commits or raises
ExecuteSql(r) ==
    /\ rpc[r] = "execute"
    /\ LET f == rpending[r][ridx[r]] IN
       /\ rlog' = [rlog EXCEPT ![r] = Append(@, f)]
       /\ \/ /\ schema' = [schema EXCEPT ![f] = @ + 1]
             /\ rcommitted' = [rcommitted EXCEPT ![r] = @ \cup {f}]
             /\ rpc' = [rpc EXCEPT ![r] = "record"]
             /\ UNCHANGED <<rfailed, rerr, lastOutcome>>
          \/ /\ Finish(r, "failed", f, "PostgresError")
             /\ UNCHANGED <<schema, rcommitted>>
    /\ UNCHANGED <<ledgerExists, ledger, rclear, rpending, ridx, rrecorded,
                   rstart, rprev, lastStarted>>
    /\ UNCHANGED otherThanMigration

\* await conn.execute("INSERT INTO migrations (name) VALUES ($1)", file_name),
\* a second statement on the same connection, outside any transaction
RecordApplied(r) ==
    /\ rpc[r] = "record"
    /\ LET f == rpending[r][ridx[r]] IN
       \/ /\ ledgerExists
          /\ f \notin ledger
          /\ ledger' = ledger \cup {f}
          /\ rrecorded' = [rrecorded EXCEPT ![r] = @ \cup {f}]
          /\ IF ridx[r] < Len(rpending[r])
             THEN /\ ridx' = [ridx EXCEPT ![r] = @ + 1]
                  /\ rpc' = [rpc EXCEPT ![r] = "execute"]
                  /\ UNCHANGED <<rfailed, rerr, lastOutcome>>
             ELSE /\ Finish(r, "done", 0, "none")
                  /\ UNCHANGED ridx
       \/ /\ ~ledgerExists
          /\ Finish(r, "failed", f, "UndefinedTableError")
          /\ UNCHANGED <<ledger, rrecorded, ridx>>
       \/ /\ ledgerExists
          /\ f \in ledger
          /\ Finish(r, "failed", f, "UniqueViolationError")
          /\ UNCHANGED <<ledger, rrecorded, ridx>>
       \/ /\ Finish(r, "failed", f, "ConnectionError")
          /\ UNCHANGED <<ledger, rrecorded, ridx>>
    /\ UNCHANGED <<ledgerExists, schema, rclear, rpending, rlog, rcommitted,
                   rstart, rprev, lastStarted>>
    /\ UNCHANGED otherThanMigration

\* runs that may overlap in time (two processes against one database)
MigNext ==
    \/ \E r \in Runs, clr \in BOOLEAN : StartRun(r, clr)
    \/ \E r \in Runs : ConnectRun(r)
    \/ \E r \in Runs : ClearMigrationsTable(r)
    \/ \E r \in Runs : VerifyLedger(r)
    \/ \E r \in Runs : SelectApplied(r)
    \/ \E r \in Runs : ExecuteSql(r)
    \/ \E r \in Runs : RecordApplied(r)

\* runs one after another
MigSeqNext ==
    \/ \E r \in Runs, clr \in BOOLEAN : StartRunInTurn(r, clr)
    \/ \E r \in Runs : ConnectRun(r)
    \/ \E r \in Runs : ClearMigrationsTable(r)
    \/ \E r \in Runs : VerifyLedger(r)
    \/ \E r \in Runs : SelectApplied(r)
    \/ \E r \in Runs : ExecuteSql(r)
    \/ \E r \in Runs : RecordApplied(r)

(***************************************************************************)
(* The statement builder (builder.py).  SQL text is a sequence of tokens:  *)
(* "kw" a keyword or punctuation the builder writes, "id" a table or       *)
(* column name, "ph" a placeholder $n, "lit" a value formatted into the    *)
(* text by an f-string.                                                    *)
(***************************************************************************)
\* number of calls chained on a builder after the call that creates it
MaxCalls == 3
\* the values handed to the builders: two values that differ
Values == {1, 2}

Tables == {"users"}

\* the key lists of the dicts handed to insert and update
KeyLists == {<<>>, <<"name">>, <<"name", "email">>}

Directions == {"desc", "sideways"}

ReturningColumns == {"*", "user_id"}

Tok(k, s, n) == [k |-> k, s |-> s, n |-> n]

Kw(s) == Tok("kw", s, 0)

Ident(s) == Tok("id", s, 0)

Ph(n) == Tok("ph", "$", n)

Lit(v) == Tok("lit", "", v)

\* the condition strings callers hand to where/and_where/or_where; the
\* docstring of where gives "column = $1"
Conditions ==
    { <<Ident("user_id"), Kw("="), Ph(1)>>,
      <<Ident("deleted_at"), Kw("IS NULL")>> }

\* SQLBuilder.__init__
NewBuilder == [sql |-> <<>>, params |-> <<>>, has_where |-> FALSE]

\* SQLBuilder.select
Select(t) == [NewBuilder EXCEPT !.sql = <<Kw("SELECT * FROM"), Ident(t)>>]

\* SQLBuilder.insert for a non-empty dict, data[i] = [col, val]
Insert(t, data) ==
    [NewBuilder EXCEPT
        !.sql = <<Kw("INSERT INTO"), Ident(t), Kw("(")>>
                \o [i \in 1..Len(data) |-> Ident(data[i].col)]
                \o <<Kw(") VALUES (")>>
                \o [i \in 1..Len(data) |-> Ph(i)]
                \o <<Kw(")"), Kw("RETURNING"), Ident("*")>>,
        !.params = [i \in 1..Len(data) |-> data[i].val]]

\* SQLBuilder.update for a non-empty dict: "k = $i" for the i-th key
Update(t, data) ==
    [NewBuilder EXCEPT
        !.sql = <<Kw("UPDATE"), Ident(t), Kw("SET")>>
                \o [k \in 1..(3 * Len(data)) |->
                       LET i == (k + 2) \div 3
                           j == (k - 1) % 3
                       IN  IF j = 0 THEN Ident(data[i].col)
                           ELSE IF j = 1 THEN Kw("=") ELSE Ph(i)],
        !.params = [i \in 1..Len(data) |-> data[i].val]]

\* SQLBuilder.delete
Delete(t) == [NewBuilder EXCEPT !.sql = <<Kw("DELETE FROM"), Ident(t)>>]

\* a where that writes the keyword whatever _has_where says
WhereAlways(b, cond) ==
    [b EXCEPT !.sql = @ \o <<Kw("WHERE")>> \o cond, !.has_where = TRUE]

\* SQLBuilder.where
Where(b, cond) ==
    IF ~b.has_where
    THEN [b EXCEPT !.sql = @ \o <<Kw("WHERE")>> \o cond, !.has_where = TRUE]
    ELSE [b EXCEPT !.sql = @ \o <<Kw("AND")>> \o cond]

\* SQLBuilder.and_where
AndWhere(b, cond) ==
    IF ~b.has_where
    THEN Where(b, cond)
    ELSE [b EXCEPT !.sql = @ \o <<Kw("AND")>> \o cond]

\* SQLBuilder.or_where
OrWhere(b, cond) ==
    IF ~b.has_where
    THEN Where(b, cond)
    ELSE [b EXCEPT !.sql = @ \o <<Kw("OR")>> \o cond]

\* str.upper on the directions callers pass
Upper(d) ==
    IF d = "desc" THEN "DESC" ELSE IF d = "sideways" THEN "SIDEWAYS" ELSE d

\* SQLBuilder.order_by
OrderBy(b, column, direction) ==
    LET d == IF Upper(direction) \notin {"ASC", "DESC"} THEN "ASC"
             ELSE Upper(direction)
    IN  [b EXCEPT !.sql = @ \o <<Kw("ORDER BY"), Ident(column), Kw(d)>>]

\* SQLBuilder.limit: f" LIMIT {limit}"
Limit(b, limit) == [b EXCEPT !.sql = @ \o <<Kw("LIMIT"), Lit(limit)>>]

\* SQLBuilder.offset: f" OFFSET {offset}"
Offset(b, offset) == [b EXCEPT !.sql = @ \o <<Kw("OFFSET"), Lit(offset)>>]

\* a test that never finds the clause
NoReturningFound(sql) == FALSE

\* " RETURNING " in self.sql
HasReturning(sql) == \E i \in 1..Len(sql) : sql[i] = Kw("RETURNING")

\* SQLBuilder.returning
Returning(b, columns) ==
    IF ~HasReturning(b.sql)
    THEN [b EXCEPT !.sql = @ \o <<Kw("RETURNING"), Ident(columns)>>]
    ELSE b

\* SQLBuilder.build
Build(b) == <<b.sql, b.params>>

\* the two builders get the same calls; where the first gets the value v the
\* second gets another value
Other(v) == 3 - v

DataOf(keys, vals) == [i \in 1..Len(keys) |-> [col |-> keys[i], val |-> vals[i]]]

OtherVals(vals) == [i \in 1..Len(vals) |-> Other(vals[i])]

Builders == {"A", "B"}

BldInit ==
    /\ bld = [x \in Builders |-> NewBuilder]
    /\ bphase = "none"
    /\ bcalls = 0
    /\ bgiven = [x \in Builders |-> {}]
    /\ bresult = [x \in Builders |-> <<<<>>, <<>>>>]
    /\ bbuilt = FALSE

ValsOf(x, vals) == IF x = "A" THEN vals ELSE OtherVals(vals)

ValOf(x, v) == IF x = "A" THEN v ELSE Other(v)

\* builder = SQLBuilder.select(table)
CallSelect(t) ==
    /\ bphase = "none"
    /\ bld' = [x \in Builders |-> Select(t)]
    /\ bphase' = "seeded"
    /\ UNCHANGED <<bcalls, bgiven, bresult, bbuilt>>
    /\ UNCHANGED otherThanBuilder

\* builder = SQLBuilder.delete(table)
CallDelete(t) ==
    /\ bphase = "none"
    /\ bld' = [x \in Builders |-> Delete(t)]
    /\ bphase' = "seeded"
    /\ UNCHANGED <<bcalls, bgiven, bresult, bbuilt>>
    /\ UNCHANGED otherThanBuilder

\* builder = SQLBuilder.insert(table, data); ValueError when data is empty
CallInsert(t, keys, vals) ==
    /\ bphase = "none"
    /\ IF keys = <<>>
       THEN /\ bphase' = "raised"
            /\ UNCHANGED <<bld, bgiven>>
       ELSE /\ bld' = [x \in Builders |-> Insert(t, DataOf(keys, ValsOf(x, vals)))]
            /\ bgiven' = [x \in Builders |-> Range(ValsOf(x, vals))]
            /\ bphase' = "seeded"
    /\ UNCHANGED <<bcalls, bresult, bbuilt>>
    /\ UNCHANGED otherThanBuilder

\* builder = SQLBuilder.update(table, data); ValueError when data is empty
CallUpdate(t, keys, vals) ==
    /\ bphase = "none"
    /\ IF keys = <<>>
       THEN /\ bphase' = "raised"
            /\ UNCHANGED <<bld, bgiven>>
       ELSE /\ bld' = [x \in Builders |-> Update(t, DataOf(keys, ValsOf(x, vals)))]
            /\ bgiven' = [x \in Builders |-> Range(ValsOf(x, vals))]
            /\ bphase' = "seeded"
    /\ UNCHANGED <<bcalls, bresult, bbuilt>>
    /\ UNCHANGED otherThanBuilder

Chained ==
    /\ bphase = "seeded"
    /\ bcalls < MaxCalls
    /\ bcalls' = bcalls + 1
    /\ UNCHANGED <<bphase, bresult, bbuilt>>
    /\ UNCHANGED otherThanBuilder

CallWhere(cond) ==
    /\ Chained
    /\ bld' = [x \in Builders |-> Where(bld[x], cond)]
    /\ UNCHANGED bgiven

CallAndWhere(cond) ==
    /\ Chained
    /\ bld' = [x \in Builders |-> AndWhere(bld[x], cond)]
    /\ UNCHANGED bgiven

CallOrWhere(cond) ==
    /\ Chained
    /\ bld' = [x \in Builders |-> OrWhere(bld[x], cond)]
    /\ UNCHANGED bgiven

CallOrderBy(column, direction) ==
    /\ Chained
    /\ bld' = [x \in Builders |-> OrderBy(bld[x], column, direction)]
    /\ UNCHANGED bgiven

CallLimit(v) ==
    /\ Chained
    /\ bld' = [x \in Builders |-> Limit(bld[x], ValOf(x, v))]
    /\ bgiven' = [x \in Builders |-> bgiven[x] \cup {ValOf(x, v)}]

CallOffset(v) ==
    /\ Chained
    /\ bld' = [x \in Builders |-> Offset(bld[x], ValOf(x, v))]
    /\ bgiven' = [x \in Builders |-> bgiven[x] \cup {ValOf(x, v)}]

CallReturning(columns) ==
    /\ Chained
    /\ bld' = [x \in Builders |-> Returning(bld[x], columns)]
    /\ UNCHANGED bgiven

\* query, params = builder.build(); the builder is left as it is
CallBuild ==
    /\ bphase = "seeded"
    /\ bresult' = [x \in Builders |-> Build(bld[x])]
    /\ bbuilt' = TRUE
    /\ UNCHANGED <<bld, bphase, bcalls, bgiven>>
    /\ UNCHANGED otherThanBuilder

ValueLists(keys) == [1..Len(keys) -> Values]

BldNext ==
    \/ \E t \in Tables : CallSelect(t)
    \/ \E t \in Tables : CallDelete(t)
    \/ \E t \in Tables, keys \in KeyLists :
           \E vals \in ValueLists(keys) : CallInsert(t, keys, vals)
    \/ \E t \in Tables, keys \in KeyLists :
           \E vals \in ValueLists(keys) : CallUpdate(t, keys, vals)
    \/ \E cond \in Conditions : CallWhere(cond)
    \/ \E cond \in Conditions : CallAndWhere(cond)
    \/ \E cond \in Conditions : CallOrWhere(cond)
    \/ \E d \in Directions : CallOrderBy("created_at", d)
    \/ \E v \in Values : CallLimit(v)
    \/ \E v \in Values : CallOffset(v)
    \/ \E c \in ReturningColumns : CallReturning(c)
    \/ CallBuild

(***************************************************************************)
(* The query executor (executor.py), DatabaseConnection (connection.py)    *)
(* and the health check (health.py), the callers of db.transaction().      *)
(***************************************************************************)
\* number of request handlers that call at the same time
NumCallers == 2
\* number of primary-key values
NumKeys == 1
\* settings.DB_POOL_MAX_SIZE, the max_size of the pool (its default in
\* config.py is 20; the model runs with a small pool)
DB_POOL_MAX_SIZE == 1

Callers == 1..NumCallers

Keys == 1..NumKeys

ExecutorMethods == {"count", "get_by_id", "list", "create", "update", "delete"}

\* the attributes class SQLBuilder defines (builder.py lines 11-109)
BuilderAttributes ==
    {"sql", "params", "_has_where", "select", "insert", "update", "delete",
     "where", "and_where", "or_where", "order_by", "limit", "offset",
     "returning", "build"}

\* the attributes of its SQLBuilder object a method uses to build its statement
BuilderUses(op, empty) ==
    CASE op = "count"     -> {"query_parts", "_add_param", "build"}
      [] op = "get_by_id" -> {"SELECT", "FROM", "_add_param", "WHERE", "LIMIT",
                              "build"}
      [] op = "list"      -> {"SELECT", "FROM", "_add_param", "WHERE", "LIMIT",
                              "OFFSET", "build"}
      [] op = "create"    -> {"INSERT_INTO", "RETURNING", "build"}
      [] op = "update"    ->
            IF empty
            THEN {"SELECT", "FROM", "_add_param", "WHERE", "LIMIT", "build"}
            ELSE {"UPDATE", "_add_param", "WHERE", "RETURNING", "build"}
      [] op = "delete"    -> {"query_parts", "_add_param", "WHERE", "build"}
      [] OTHER            -> {}

Active(c) == cpc[c] \notin {"idle", "returned", "raised"}

ExInit ==
    /\ pool = "unset"
    /\ inUse = {}
    /\ rows = {}
    /\ cpc = [c \in Callers |-> "idle"]
    /\ cop = [c \in Callers |-> "none"]
    /\ ckey = [c \in Callers |-> 1]
    /\ cempty = [c \in Callers |-> FALSE]
    /\ cerr = [c \in Callers |-> "none"]
    /\ ctx = [c \in Callers |-> 0]
    /\ cwrite = [c \in Callers |-> "none"]
    /\ cfull = [c \in Callers |-> FALSE]
    /\ cconc = [c \in Callers |-> FALSE]
    /\ cpool = [c \in Callers |-> "none"]

\* DatabaseConnection.connect: self.pool = create_pool(...), at startup or
\* again after a disconnect
DbConnect ==
    /\ pool \in {"unset", "closed"}
    /\ pool' = "open"
    /\ UNCHANGED <<inUse, rows, cpc, cop, ckey, cempty, cerr, ctx, cwrite,
                   cfull, cconc, cpool>>
    /\ UNCHANGED otherThanExecutor

\* DatabaseConnection.disconnect (shutdown_event of main.py, the finally of
\* apply_migrations), called when no call is under way: self.pool.close(),
\* and self.pool keeps the closed pool
DbDisconnect ==
    /\ pool = "open"
    /\ \A c \in Callers : cpc[c] \in {"idle", "returned", "raised"}
    /\ pool' = "closed"
    /\ UNCHANGED <<inUse, rows, cpc, cop, ckey, cempty, cerr, ctx, cwrite,
                   cfull, cconc, cpool>>
    /\ UNCHANGED otherThanExecutor

\* a create call with the primary-key value key is under way
CreateUnderWay(key) ==
    \E d \in Callers : Active(d) /\ cop[d] = "create" /\ ckey[d] = key

\* a request handler calls a method of QueryExecutor
CallExecutor(c, op, key, empty) ==
    /\ ~Active(c)
    /\ empty => op = "update"
    /\ cpc' = [cpc EXCEPT ![c] = "build"]
    /\ cop' = [cop EXCEPT ![c] = op]
    /\ ckey' = [ckey EXCEPT ![c] = key]
    /\ cempty' = [cempty EXCEPT ![c] = empty]
    /\ cerr' = [cerr EXCEPT ![c] = "none"]
    /\ ctx' = [ctx EXCEPT ![c] = 0]
    /\ cfull' = [cfull EXCEPT ![c] = Cardinality(inUse) = DB_POOL_MAX_SIZE]
    /\ cconc' = [d \in Callers |->
                    IF op = "create" /\ CreateUnderWay(key)
                    THEN IF d = c THEN TRUE
                         ELSE IF Active(d) /\ cop[d] = "create" /\ ckey[d] = key
                              THEN TRUE ELSE cconc[d]
                    ELSE IF d = c THEN FALSE ELSE cconc[d]]
    /\ cpool' = [cpool EXCEPT ![c] = "none"]
    /\ UNCHANGED <<pool, inUse, rows, cwrite>>
    /\ UNCHANGED otherThanExecutor

\* check_database_health is called: it goes to db.transaction() at once
CallHealth(c) ==
    /\ ~Active(c)
    /\ cpc' = [cpc EXCEPT ![c] = "enter"]
    /\ cop' = [cop EXCEPT ![c] = "health"]
    /\ ckey' = [ckey EXCEPT ![c] = 1]
    /\ cempty' = [cempty EXCEPT ![c] = FALSE]
    /\ cerr' = [cerr EXCEPT ![c] = "none"]
    /\ ctx' = [ctx EXCEPT ![c] = 0]
    /\ cfull' = [cfull EXCEPT ![c] = Cardinality(inUse) = DB_POOL_MAX_SIZE]
    /\ cconc' = [cconc EXCEPT ![c] = FALSE]
    /\ cpool' = [cpool EXCEPT ![c] = "none"]
    /\ UNCHANGED <<pool, inUse, rows, cwrite>>
    /\ UNCHANGED otherThanExecutor

\* the exception err leaves the call; check_database_health alone catches
\* Exception and returns the "unhealthy" answer
Leave(c, err) ==
    /\ cpc' = [cpc EXCEPT ![c] =
                  IF cop[c] = "health" /\ err # "CancelledError"
                  THEN "returned" ELSE "raised"]
    /\ cerr' = [cerr EXCEPT ![c] = err]

\* the statements of a method up to builder.build(): an attribute that
\* SQLBuilder does not define raises AttributeError
BuildStatement(c) ==
    /\ cpc[c] = "build"
    /\ IF BuilderUses(cop[c], cempty[c]) \subseteq BuilderAttributes
       THEN /\ cpc' = [cpc EXCEPT ![c] = "enter"]
            /\ UNCHANGED cerr
       ELSE Leave(c, "AttributeError")
    /\ UNCHANGED <<pool, inUse, rows, cop, ckey, cempty, ctx, cwrite, cfull,
                   cconc, cpool>>
    /\ UNCHANGED otherThanExecutor

\* pool.acquire() returned a connection, conn.transaction() began
Acquired(c) ==
    /\ inUse' = inUse \cup {c}
    /\ ctx' = [ctx EXCEPT ![c] = @ + 1]
    /\ cpc' = [cpc EXCEPT ![c] = "intxn"]
    /\ UNCHANGED cerr

\* async with self.db.transaction(): RuntimeError when self.pool is None;
\* else self.pool.acquire(), which raises asyncpg's InterfaceError on a
\* closed pool and suspends the call while every connection is in use
EnterTransaction(c) ==
    /\ cpc[c] = "enter"
    /\ cpool' = [cpool EXCEPT ![c] = pool]
    /\ IF pool = "unset"
       THEN /\ Leave(c, "RuntimeError")
            /\ UNCHANGED <<inUse, ctx>>
       ELSE IF pool = "closed"
            THEN /\ Leave(c, "InterfaceError")
                 /\ UNCHANGED <<inUse, ctx>>
            ELSE IF Cardinality(inUse) < DB_POOL_MAX_SIZE
                 THEN Acquired(c)
                 ELSE /\ cpc' = [cpc EXCEPT ![c] = "waiting"]
                      /\ UNCHANGED <<inUse, ctx, cerr>>
    /\ UNCHANGED <<pool, rows, cop, ckey, cempty, cwrite, cfull, cconc>>
    /\ UNCHANGED otherThanExecutor

\* a holder released a connection: a suspended pool.acquire() returns
ResumeAcquire(c) ==
    /\ cpc[c] = "waiting"
    /\ Cardinality(inUse) < DB_POOL_MAX_SIZE
    /\ Acquired(c)
    /\ UNCHANGED <<pool, rows, cop, ckey, cempty, cwrite, cfull, cconc, cpool>>
    /\ UNCHANGED otherThanExecutor

\* an INSERT of a key that another open transaction has inserted waits for it
InsertBlocked(c) ==
    \E d \in Callers \ {c} :
        cpc[d] = "sent" /\ cwrite[d] = "insert" /\ ckey[d] = ckey[c]

\* the statement of the call runs on its connection (fetchval, fetchrow,
\* fetch, execute); an error rolls the transaction back and releases
SendStatement(c) ==
    /\ cpc[c] = "intxn"
    /\ \/ /\ cop[c] = "create"
          /\ ~InsertBlocked(c)
          /\ IF ckey[c] \in rows
             THEN /\ Leave(c, "UniqueViolationError")
                  /\ inUse' = inUse \ {c}
                  /\ UNCHANGED cwrite
             ELSE /\ cwrite' = [cwrite EXCEPT ![c] = "insert"]
                  /\ cpc' = [cpc EXCEPT ![c] = "sent"]
                  /\ UNCHANGED <<cerr, inUse>>
       \/ /\ cop[c] = "delete"
          /\ cwrite' = [cwrite EXCEPT ![c] =
                           IF ckey[c] \in rows THEN "delete" ELSE "none"]
          /\ cpc' = [cpc EXCEPT ![c] = "sent"]
          /\ UNCHANGED <<cerr, inUse>>
       \/ /\ cop[c] \notin {"create", "delete"}
          /\ cpc' = [cpc EXCEPT ![c] = "sent"]
          /\ UNCHANGED <<cerr, inUse, cwrite>>
       \/ /\ Leave(c, "ConnectionError")
          /\ inUse' = inUse \ {c}
          /\ UNCHANGED cwrite
    /\ UNCHANGED <<pool, rows, cop, ckey, cempty, ctx, cfull, cconc, cpool>>
    /\ UNCHANGED otherThanExecutor

\* the with blocks are left normally: commit, release, return
CommitAndReturn(c) ==
    /\ cpc[c] = "sent"
    /\ rows' = CASE cwrite[c] = "insert" -> rows \cup {ckey[c]}
                 [] cwrite[c] = "delete" -> rows \ {ckey[c]}
                 [] OTHER -> rows
    /\ cwrite' = [cwrite EXCEPT ![c] = "none"]
    /\ inUse' = inUse \ {c}
    /\ cpc' = [cpc EXCEPT ![c] = "returned"]
    /\ UNCHANGED <<pool, cop, ckey, cempty, cerr, ctx, cfull, cconc, cpool>>
    /\ UNCHANGED otherThanExecutor

\* the task of the call is cancelled at an await: CancelledError leaves the
\* with blocks, the transaction rolls back, the connection is released
CancelCall(c) ==
    /\ cpc[c] \in {"waiting", "intxn", "sent"}
    /\ Leave(c, "CancelledError")
    /\ cwrite' = [cwrite EXCEPT ![c] = "none"]
    /\ inUse' = inUse \ {c}
    /\ UNCHANGED <<pool, rows, cop, ckey, cempty, ctx, cfull, cconc, cpool>>
    /\ UNCHANGED otherThanExecutor

ExNext ==
    \/ DbConnect
    \/ DbDisconnect
    \/ \E c \in Callers, op \in ExecutorMethods, key \in Keys, empty \in BOOLEAN :
           CallExecutor(c, op, key, empty)
    \/ \E c \in Callers : CallHealth(c)
    \/ \E c \in Callers : BuildStatement(c)
    \/ \E c \in Callers : EnterTransaction(c)
    \/ \E c \in Callers : ResumeAcquire(c)
    \/ \E c \in Callers : SendStatement(c)
    \/ \E c \in Callers : CommitAndReturn(c)
    \/ \E c \in Callers : CancelCall(c)

(***************************************************************************)
(* The model registry (models/dynamic.py), the start of the application    *)
(* (main.py) and the dependency that gives a request handler its executor  *)
(* (api/dependencies.py).                                                  *)
(***************************************************************************)
\* the tables the routers of crud_routes.py are created for
RoutedTables == {"users", "recordings", "sessions", "algos", "event_log"}

\* the class name generate_models gives the model of a table: the singular
\* of the table name, title-cased, underscores removed
ModelName(t) ==
    CASE t = "users"      -> "User"
      [] t = "recordings" -> "Recording"
      [] t = "sessions"   -> "Session"
      [] t = "algos"      -> "Algo"
      [] t = "event_log"  -> "EventLog"

\* TABLE_NAME_MAP of executor.py
TABLE_NAME_MAP ==
    [n \in {"User", "Recording", "EventLog", "Algo"} |->
        CASE n = "User"      -> "users"
          [] n = "Recording" -> "recordings"
          [] n = "EventLog"  -> "event_log"
          [] n = "Algo"      -> "algos"]

\* TABLE_NAME_MAP.get(model_name): "none" stands for None
TableNameOf(n) ==
    IF n \in DOMAIN TABLE_NAME_MAP THEN TABLE_NAME_MAP[n] ELSE "none"

\* number of tasks that call the loading methods of dynamic_models
NumLoaders == 2

Loaders == 1..NumLoaders

\* the tables get_table_info finds in the schema "public": the routed tables
\* and the ledger of the migration manager
SchemaTables == RoutedTables \cup {"migrations"}

\* DynamicModels.get_model: self._models.get(table_name), "none" for None
GetModel(t) == IF t \in models THEN ModelName(t) ELSE "none"

\* dynamic_models = DynamicModels(): nothing loaded
RegInit ==
    /\ initialized = FALSE
    /\ models = {}
    /\ hpc = [c \in Callers |-> "idle"]
    /\ htable = [c \in Callers |-> "none"]
    /\ hloaded = [c \in Callers |-> FALSE]
    /\ herr = [c \in Callers |-> "none"]
    /\ lpc = [l \in Loaders |-> "idle"]
    /\ lkind = [l \in Loaders |-> "none"]
    /\ linit = [l \in Loaders |-> FALSE]
    /\ lgen = [l \in Loaders |-> FALSE]
    /\ lset = [l \in Loaders |-> FALSE]
    /\ lerr = [l \in Loaders |-> "none"]

\* startup_event of main.py: await db.connect(), and nothing else
StartupEvent ==
    /\ DbConnect
    /\ UNCHANGED regVars

\* a request reaches a route of the router of table t (the application
\* serves requests once startup_event is over)
ReceiveRequest(c, t) ==
    /\ pool = "open"
    /\ hpc[c] # "resolving"
    /\ hpc' = [hpc EXCEPT ![c] = "resolving"]
    /\ htable' = [htable EXCEPT ![c] = t]
    /\ hloaded' = [hloaded EXCEPT ![c] = FALSE]
    /\ herr' = [herr EXCEPT ![c] = "none"]
    /\ UNCHANGED <<initialized, models>>
    /\ UNCHANGED loadVars
    /\ UNCHANGED exVars
    /\ UNCHANGED otherThanRegistry

\* _get_executor of get_query_executor(table_name): the registry is read;
\* no model, or a model QueryExecutor has no table for, raises ValueError
ResolveExecutor(c) ==
    /\ hpc[c] = "resolving"
    /\ hloaded' = [hloaded EXCEPT ![c] = initialized]
    /\ LET model == GetModel(htable[c])
       IN  IF model = "none" \/ TableNameOf(model) = "none"
           THEN /\ hpc' = [hpc EXCEPT ![c] = "failed"]
                /\ herr' = [herr EXCEPT ![c] = "ValueError"]
           ELSE /\ hpc' = [hpc EXCEPT ![c] = "handling"]
                /\ UNCHANGED herr
    /\ UNCHANGED <<initialized, models, htable>>
    /\ UNCHANGED loadVars
    /\ UNCHANGED exVars
    /\ UNCHANGED otherThanRegistry

\* a load_models that does not look at the flag
NeverLoaded == FALSE

\* "if self._initialized" of load_models
AlreadyLoaded == initialized

\* a call begins: the method and the flag as it found it
BeginLoad(l, kind) ==
    /\ lpc[l] # "introspecting"
    /\ lkind' = [lkind EXCEPT ![l] = kind]
    /\ linit' = [linit EXCEPT ![l] = initialized]

\* the body of load_models: nothing when the flag is set; otherwise
\* generate_models(db) with the DatabaseConnection object db, which raises
\* AttributeError at pool.acquire() before it awaits anything (connection.py
\* defines no acquire); the except clause logs and raises again
LoadModelsBody(l) ==
    /\ IF AlreadyLoaded
       THEN /\ lpc' = [lpc EXCEPT ![l] = "returned"]
            /\ lgen' = [lgen EXCEPT ![l] = FALSE]
            /\ lerr' = [lerr EXCEPT ![l] = "none"]
       ELSE /\ lpc' = [lpc EXCEPT ![l] = "raised"]
            /\ lgen' = [lgen EXCEPT ![l] = TRUE]
            /\ lerr' = [lerr EXCEPT ![l] = "AttributeError"]
    /\ lset' = [lset EXCEPT ![l] = FALSE]
    /\ UNCHANGED <<initialized, models>>

\* await dynamic_models.load_models()
CallLoadModels(l) ==
    /\ BeginLoad(l, "load_models")
    /\ LoadModelsBody(l)
    /\ UNCHANGED requestVars
    /\ UNCHANGED exVars
    /\ UNCHANGED otherThanRegistry

\* await dynamic_models.initialize(pool): without a pool it is load_models;
\* with the asyncpg pool it calls generate_models(pool) whatever the flag
\* says, and waits for the catalog queries
CallInitialize(l, withPool) ==
    /\ BeginLoad(l, "initialize")
    /\ IF ~withPool
       THEN LoadModelsBody(l)
       ELSE /\ pool = "open"
            /\ lpc' = [lpc EXCEPT ![l] = "introspecting"]
            /\ lgen' = [lgen EXCEPT ![l] = TRUE]
            /\ lset' = [lset EXCEPT ![l] = FALSE]
            /\ lerr' = [lerr EXCEPT ![l] = "none"]
            /\ UNCHANGED <<initialized, models>>
    /\ UNCHANGED requestVars
    /\ UNCHANGED exVars
    /\ UNCHANGED otherThanRegistry

\* generate_models(pool) returns: self._models = ..., self._initialized = True
GenerateModelsReturns(l) ==
    /\ lpc[l] = "introspecting"
    /\ models' = SchemaTables
    /\ initialized' = TRUE
    /\ lset' = [lset EXCEPT ![l] = TRUE]
    /\ lpc' = [lpc EXCEPT ![l] = "returned"]
    /\ UNCHANGED <<lkind, linit, lgen, lerr>>
    /\ UNCHANGED requestVars
    /\ UNCHANGED exVars
    /\ UNCHANGED otherThanRegistry

\* a catalog query of generate_models(pool) fails: initialize catches nothing
GenerateModelsRaises(l) ==
    /\ lpc[l] = "introspecting"
    /\ lpc' = [lpc EXCEPT ![l] = "raised"]
    /\ lerr' = [lerr EXCEPT ![l] = "PostgresError"]
    /\ UNCHANGED <<initialized, models, lkind, linit, lgen, lset>>
    /\ UNCHANGED requestVars
    /\ UNCHANGED exVars
    /\ UNCHANGED otherThanRegistry

\* DynamicModels.close: the flag is reset, the models stay
Close ==
    /\ initialized
    /\ initialized' = FALSE
    /\ UNCHANGED <<models, loadVars>>
    /\ UNCHANGED requestVars
    /\ UNCHANGED exVars
    /\ UNCHANGED otherThanRegistry

LoadNext ==
    \/ StartupEvent
    \/ \E l \in Loaders : CallLoadModels(l)
    \/ \E l \in Loaders, withPool \in BOOLEAN : CallInitialize(l, withPool)
    \/ \E l \in Loaders : GenerateModelsReturns(l)
    \/ \E l \in Loaders : GenerateModelsRaises(l)
    \/ Close

RegNext ==
    \/ LoadNext
    \/ \E c \in Callers, t \in RoutedTables : ReceiveRequest(c, t)
    \/ \E c \in Callers : ResolveExecutor(c)

(***************************************************************************)
(* One QueryExecutor and the calls made on it one after another, with      *)
(* their arguments (executor.py).  No method awaits before its statement   *)
(* is built, so a call that raises while building is one step.             *)
(***************************************************************************)
\* number of record ids
NumRecordIds == 2

RecordIds == 1..NumRecordIds

\* the model classes of src/models/__init__.py
StaticModels == {"User", "Recording", "EventLog", "Algo", "Session"}

\* the tables an executor can be constructed for
MappedTables == {TABLE_NAME_MAP[n] : n \in DOMAIN TABLE_NAME_MAP}

\* the fields of the model class of a table (models/users.py, recordings.py,
\* event_log.py, algos.py)
ModelFields(t) ==
    CASE t = "users" ->
            {"user_id", "firebase_data", "body_data", "created_at",
             "updated_at"}
      [] t = "recordings" ->
            {"recording_id", "recording_link", "recording_type", "user_id",
             "created_at", "updated_at", "created_session_id"}
      [] t = "event_log" ->
            {"event_id", "ts", "user_id", "session_id", "event_type",
             "event_data", "event_source", "log_level", "app_version",
             "created_at", "updated_at"}
      [] t = "algos" ->
            {"algo_id", "recording_type", "location", "version",
             "created_at", "updated_at"}

\* the field that holds the primary key of a table
PrimaryKey(t) ==
    CASE t = "users"      -> "user_id"
      [] t = "recordings" -> "recording_id"
      [] t = "event_log"  -> "event_id"
      [] t = "algos"      -> "algo_id"

\* a column of the table that is no key: jsonb in users and event_log, text
\* in recordings and algos
DataColumn(t) ==
    CASE t = "users"      -> "body_data"
      [] t = "recordings" -> "recording_link"
      [] t = "event_log"  -> "event_data"
      [] t = "algos"      -> "location"

\* the characters of a table name
Spell(t) ==
    CASE t = "users"      -> <<"u", "s", "e", "r", "s">>
      [] t = "recordings" -> <<"r", "e", "c", "o", "r", "d", "i", "n", "g", "s">>
      [] t = "event_log"  -> <<"e", "v", "e", "n", "t", "_", "l", "o", "g">>
      [] t = "algos"      -> <<"a", "l", "g", "o", "s">>

\* the characters of a field name that ends in _id
SpellField(f) ==
    CASE f = "user_id"      -> <<"u", "s", "e", "r", "_", "i", "d">>
      [] f = "recording_id" -> <<"r", "e", "c", "o", "r", "d", "i", "n", "g",
                                 "_", "i", "d">>
      [] f = "event_id"     -> <<"e", "v", "e", "n", "t", "_", "i", "d">>
      [] f = "event_log_id" -> <<"e", "v", "e", "n", "t", "_", "l", "o", "g",
                                 "_", "i", "d">>
      [] f = "algo_id"      -> <<"a", "l", "g", "o", "_", "i", "d">>
      [] f = "session_id"   -> <<"s", "e", "s", "s", "i", "o", "n", "_", "i",
                                 "d">>
      [] f = "created_session_id" ->
            <<"c", "r", "e", "a", "t", "e", "d", "_", "s", "e", "s", "s", "i",
              "o", "n", "_", "i", "d">>

IdNames ==
    {"user_id", "recording_id", "event_id", "event_log_id", "algo_id",
     "session_id", "created_session_id"}

\* pk_field of get_by_id, update and delete:
\*   f'{table_name[:-1]}_id' if table_name.endswith('s') else f'{table_name}_id'
PkFieldChars(t) ==
    LET name == Spell(t)
    IN  IF name[Len(name)] = "s"
        THEN SubSeq(name, 1, Len(name) - 1) \o <<"_", "i", "d">>
        ELSE name \o <<"_", "i", "d">>

PkField(t) == CHOOSE f \in IdNames : SpellField(f) = PkFieldChars(t)

\* a Python value: a str, a dict (named by its json.dumps text), None, a
\* record id, or a range map {"$gte": n} / {"$lte": n}
Val(type, text, n) == [type |-> type, text |-> text, n |-> n, hi |-> 0]

Str(text) == Val("str", text, 0)

Dict(text) == Val("dict", text, 0)

None == Val("None", "", 0)

Id(i) == Val("id", "", i)

Gte(n) == Val("$gte", "", n)

Lte(n) == Val("$lte", "", n)

\* {"$gte": lo, "$lte": hi}, the value list_sessions gives ts_start when
\* both start_time and end_time are given
Between(lo, hi) == [Val("$gte$lte", "", lo) EXCEPT !.hi = hi]

\* no value: the key is absent from the map
Absent == Val("absent", "", 0)

\* the values given for the data column: a text (one that reads as the JSON
\* of a map) and a map
ColumnValues == {Str("{\"a\": 1}"), Dict("{\"a\": 1}")}

\* json.dumps of a dict or list
JsonDumps(v) == Str(v.text)

\* _process_data_for_db: dicts and lists are serialised, the rest is kept
ProcessDataForDb(data) ==
    [k \in DOMAIN data |->
        IF data[k].type \in {"dict", "list"} THEN JsonDumps(data[k])
        ELSE data[k]]

\* the values a data argument gives the primary key (0: none) and the data
\* column (Absent: none)
KeyArguments == RecordIds \cup {0}

ColumnArguments == ColumnValues \cup {Absent}

\* the map with the primary key i (0: no such key) and the data column v
DataOfRecord(t, i, v) ==
    [k \in (IF i = 0 THEN {} ELSE {PrimaryKey(t)})
            \cup (IF v = Absent THEN {} ELSE {DataColumn(t)}) |->
        IF k = PrimaryKey(t) /\ i # 0 THEN Id(i) ELSE v]

EmptyMap == [k \in {} |-> Absent]

\* the filters arguments of count and list
FilterMaps ==
    {EmptyMap} \cup
    {[k \in {"created_at"} |-> v] :
        v \in {Str("abc"), None, Gte(1), Lte(1), Between(1, 2)}}

Pages == {1, 2}

Sizes == {1}

NoPayload == [set |-> FALSE, m |-> EmptyMap]

Payload(m) == [set |-> TRUE, m |-> m]

NoResult == [kind |-> "none"]

\* how a call ended: its exception, what it returned, the statements it sent
Outcome(err, result, sent) == [err |-> err, result |-> result, sent |-> sent]

\* the attributes a method asks of its SQLBuilder that the class lacks
Missing(op, empty) == BuilderUses(op, empty) \ BuilderAttributes

\* a method whose builder lacks an attribute raises before any statement
RaisesAttributeError(op, empty) ==
    IF Missing(op, empty) # {} THEN Outcome("AttributeError", NoResult, <<>>)
    ELSE Outcome("none", NoResult, <<>>)

\* an update that would answer None without a look at the table
UpdateReturnsNone(id) == Outcome("none", [kind |-> "null"], <<>>)

\* "return await self.get_by_id(record_id)" of update (lines 267 and 282)
UpdateDelegates(id) == RaisesAttributeError("get_by_id", FALSE)

NoCall ==
    [op |-> "none", id |-> 0, data |-> EmptyMap, replace |-> FALSE,
     filters |-> EmptyMap, page |-> 0, size |-> 0, pk |-> "",
     payload |-> NoPayload, out |-> Outcome("none", NoResult, <<>>),
     store0 |-> {}]

\* what is kept of the call before the last one
Digest(call) ==
    [op |-> call.op, id |-> call.id,
     data |-> IF call.op = "create" THEN call.data ELSE EmptyMap,
     filters |-> call.filters, page |-> call.page, size |-> call.size,
     out |-> call.out]

RecInit ==
    /\ xtable = "none"
    /\ xerr = "none"
    /\ xmodel = "none"
    /\ store = {}
    /\ last = NoCall
    /\ prev = Digest(NoCall)

\* a constructor that keeps the None of TABLE_NAME_MAP.get and does not raise
NewExecutorUnchecked(model) ==
    /\ xmodel' = model
    /\ xerr' = "none"
    /\ xtable' = TableNameOf(model)
    /\ last' = NoCall
    /\ prev' = Digest(NoCall)
    /\ UNCHANGED store
    /\ UNCHANGED otherThanRecords

\* executor = QueryExecutor(db, model_class): the table of the model, or
\* ValueError, which leaves the caller without an executor
NewExecutor(model) ==
    /\ xmodel' = model
    /\ IF TableNameOf(model) = "none"
       THEN /\ xerr' = "ValueError"
            /\ xtable' = "none"
       ELSE /\ xerr' = "none"
            /\ xtable' = TableNameOf(model)
    /\ last' = NoCall
    /\ prev' = Digest(NoCall)
    /\ UNCHANGED store
    /\ UNCHANGED otherThanRecords

\* another client of the database has written the rows with the first n
\* ids; the table is not written between the calls on the executor
OtherClientWrites(n) ==
    /\ last.op = "none"
    /\ store' = 1..n
    /\ UNCHANGED <<xtable, xerr, xmodel, last, prev>>
    /\ UNCHANGED otherThanRecords

\* a call on the executor ends: it becomes the last call
EndCall(call) ==
    /\ xtable # "none"
    /\ last' = [call EXCEPT !.store0 = store]
    /\ prev' = Digest(last)
    /\ UNCHANGED <<xtable, xerr, xmodel, store>>
    /\ UNCHANGED otherThanRecords

\* count(filters): raises at builder.query_parts (line 72)
ExecCount(filters) ==
    /\ Missing("count", FALSE) # {}
    /\ EndCall([NoCall EXCEPT !.op = "count", !.filters = filters,
                              !.out = RaisesAttributeError("count", FALSE)])

\* get_by_id(record_id): raises at builder.SELECT (line 104), before pk_field
ExecGetById(id) ==
    /\ Missing("get_by_id", FALSE) # {}
    /\ EndCall([NoCall EXCEPT !.op = "get_by_id", !.id = id,
                              !.out = RaisesAttributeError("get_by_id", FALSE)])

\* list(filters, page, size): raises at builder.SELECT (line 150); the except
\* clause of line 193 logs and raises again
ExecList(filters, page, size) ==
    /\ Missing("list", FALSE) # {}
    /\ EndCall([NoCall EXCEPT !.op = "list", !.filters = filters,
                              !.page = page, !.size = size,
                              !.out = RaisesAttributeError("list", FALSE)])

\* create(data), data the map with the key i and the column value v: the
\* data is processed, then builder.INSERT_INTO raises (line 216); the except
\* clauses of lines 242 and 245 log and raise again
ExecCreate(i, v) ==
    LET data == DataOfRecord(xtable, i, v)
    IN
    /\ xtable # "none"
    /\ Missing("create", FALSE) # {}
    /\ EndCall([NoCall EXCEPT !.op = "create", !.data = data,
                              !.payload = Payload(ProcessDataForDb(data)),
                              !.out = RaisesAttributeError("create", FALSE)])

\* update(record_id, data, replace), data the map with the key i and the
\* column value v
ExecUpdate(id, i, v, replace) ==
    LET data == DataOfRecord(xtable, i, v)
        call == [NoCall EXCEPT !.op = "update", !.id = id, !.data = data,
                               !.replace = replace]
        processed_data == ProcessDataForDb(data)
        pk_field == PkField(xtable)
        update_payload ==
            IF replace THEN processed_data
            ELSE [k \in (DOMAIN processed_data) \ {pk_field} |->
                     processed_data[k]]
        prepared == [call EXCEPT !.pk = pk_field,
                                 !.payload = Payload(update_payload)]
    IN  /\ xtable # "none"
        /\ IF DOMAIN data = {} /\ ~replace
           THEN EndCall([call EXCEPT !.out = UpdateDelegates(id)])
           ELSE IF DOMAIN update_payload = {} /\ ~replace
                THEN EndCall([prepared EXCEPT !.out = UpdateDelegates(id)])
                ELSE /\ Missing("update", FALSE) # {}
                     /\ EndCall([prepared EXCEPT
                                   !.out = RaisesAttributeError("update", FALSE)])

\* delete(record_id): raises at builder.query_parts (line 325)
ExecDelete(id) ==
    /\ Missing("delete", FALSE) # {}
    /\ EndCall([NoCall EXCEPT !.op = "delete", !.id = id,
                              !.out = RaisesAttributeError("delete", FALSE)])

RecNext ==
    \/ \E model \in StaticModels : NewExecutor(model)
    \/ \E n \in 0..NumRecordIds : OtherClientWrites(n)
    \/ \E filters \in FilterMaps : ExecCount(filters)
    \/ \E id \in RecordIds : ExecGetById(id)
    \/ \E filters \in FilterMaps, page \in Pages, size \in Sizes :
           ExecList(filters, page, size)
    \/ \E i \in KeyArguments, v \in ColumnArguments : ExecCreate(i, v)
    \/ \E id \in RecordIds, i \in KeyArguments, v \in ColumnArguments,
          replace \in BOOLEAN :
           ExecUpdate(id, i, v, replace)
    \/ \E id \in RecordIds : ExecDelete(id)

(***************************************************************************)
(* Schema introspection (db/introspection.py): get_table_info reads the    *)
(* catalog with two queries and builds one TableInfo per table name.       *)
(***************************************************************************)
\* number of columns of each table; a column is named by its
\* ordinal_position
NumColumns == 2

Columns == 1..NumColumns

\* information_schema.tables of the schema: table_name and table_type
CatalogTables ==
    [t \in {"active_users", "sessions", "users"} |->
        IF t = "active_users" THEN "VIEW" ELSE "BASE TABLE"]

\* the table names in the order of ORDER BY t.table_name
TableNamesInOrder == <<"active_users", "sessions", "users">>

\* the constraint types that have rows in key_column_usage
KeyConstraintTypes == {"PRIMARY KEY", "FOREIGN KEY", "UNIQUE"}

BaseTables == {t \in DOMAIN CatalogTables : CatalogTables[t] = "BASE TABLE"}

\* n copies of the element e
Copies(n, e) == [i \in 1..n |-> e]

\* the concatenation of the sequences f[1], ..., f[n]
RECURSIVE Concat(_, _)
Concat(f, n) == IF n = 0 THEN <<>> ELSE Concat(f, n - 1) \o f[n]

\* the constraint_type values the two LEFT JOINs of table_query give the
\* column c of table t: one row for each key constraint the column is in
ConstraintTypesOf(t, c) ==
    {k \in KeyConstraintTypes :
        [table |-> t, column |-> c, type |-> k] \in keyUsage}

\* the number of rows of table_query for the column: a column in no key
\* constraint keeps one row, with constraint_type NULL
RowCount(t, c) ==
    IF ConstraintTypesOf(t, c) = {} THEN 1
    ELSE Cardinality(ConstraintTypesOf(t, c))

\* pk_dict[table]: the columns pk_query returns for the table
PkDict(t) ==
    {c \in Columns :
        [table |-> t, column |-> c, type |-> "PRIMARY KEY"] \in keyUsage}

\* ColumnInfo(...) of one row
ColumnInfo(t, c) == [name |-> c, is_primary_key |-> c \in PkDict(t)]

\* the columns list of the table: one ColumnInfo appended for each row, the
\* rows in the order of ordinal_position
ColumnsOf(t) ==
    Concat([c \in Columns |-> Copies(RowCount(t, c), ColumnInfo(t, c))],
           NumColumns)

\* TableInfo(...) of a table
TableInfo(t) ==
    [name |-> t, columns |-> ColumnsOf(t), primary_keys |-> PkDict(t)]

\* list(tables.values()): the tables that have rows in table_query (the
\* WHERE clause keeps the base tables), in the order of their first row
TableInfos ==
    Concat([i \in 1..Len(TableNamesInOrder) |->
               IF CatalogTables[TableNamesInOrder[i]] = "BASE TABLE"
               THEN <<TableInfo(TableNamesInOrder[i])>>
               ELSE <<>>],
           Len(TableNamesInOrder))

\* the schema as the migrations leave it, before the key constraints
IntroInit ==
    /\ keyUsage = {}
    /\ tinfo = <<>>

\* ALTER TABLE t ADD CONSTRAINT ... of type k on the column c
AddConstraint(t, c, k) ==
    /\ [table |-> t, column |-> c, type |-> k] \notin keyUsage
    /\ keyUsage' = keyUsage \cup {[table |-> t, column |-> c, type |-> k]}
    /\ tinfo' = <<>>
    /\ UNCHANGED otherThanIntrospection

\* await get_table_info(pool)
GetTableInfo ==
    /\ tinfo = <<>>
    /\ tinfo' = TableInfos
    /\ UNCHANGED keyUsage
    /\ UNCHANGED otherThanIntrospection

IntroNext ==
    \/ \E t \in BaseTables, c \in Columns, k \in KeyConstraintTypes :
           AddConstraint(t, c, k)
    \/ GetTableInfo

(***************************************************************************)
(* Specifications                                                          *)
(***************************************************************************)
Init == MigInit /\ BldInit /\ ExInit /\ RegInit /\ RecInit /\ IntroInit

SpecMigration == Init /\ [][MigNext]_vars

SpecMigrationSeq == Init /\ [][MigSeqNext]_vars

SpecBuilder == Init /\ [][BldNext]_vars

SpecExecutor == Init /\ [][ExNext]_vars

SpecRegistry == Init /\ [][RegNext]_vars

SpecLoad == Init /\ [][LoadNext]_vars

SpecIntrospection == Init /\ [][IntroNext]_vars

SpecRecords == Init /\ [][RecNext]_vars

(***************************************************************************)
(* Claims about the migration ledger manager                               *)
(***************************************************************************)
IsAscending(s) == \A i, j \in 1..Len(s) : i < j => s[i] < s[j]

\* C1: a file name is in the ledger only if its SQL effect is committed, and a
\* file whose application raised has neither a committed effect of that
\* application nor a ledger row (SQL and ledger INSERT are one transaction).
C1_SqlAndLedgerAtomic ==
    /\ \A f \in ledger : schema[f] > 0
    /\ \A r \in Runs :
        (rpc[r] = "failed" /\ rfailed[r] # 0) =>
            /\ rfailed[r] \notin rcommitted[r]
            /\ rfailed[r] \notin rrecorded[r]

\* C2: over any number of runs with clear_existing=False, one after another or
\* overlapping, the SQL of each migration file is applied at most once in total.
C2_AppliedAtMostOnce ==
    (\A r \in Runs : ~rclear[r]) => \A f \in SqlFiles : schema[f] <= 1

\* C3: a run executes its pending files in ascending file name order; when a
\* file raises, it is the last file the run executed, no later pending file is
\* executed or recorded, the files the run applied before it are still in the
\* ledger, and the error leaves apply_migrations.
C3_OrderedAndHaltsOnError ==
    \A r \in Runs :
        /\ IsAscending(rlog[r])
        /\ Len(rlog[r]) <= Len(rpending[r])
        /\ rlog[r] = SubSeq(rpending[r], 1, Len(rlog[r]))
        /\ (rpc[r] = "failed" /\ rfailed[r] # 0) =>
            /\ rerr[r] # "none"
            /\ rlog[r][Len(rlog[r])] = rfailed[r]
            /\ rrecorded[r] = Range(rlog[r]) \ {rfailed[r]}
            /\ (lastStarted = r) =>
                /\ rrecorded[r] \subseteq ledger
                /\ \A i \in Len(rlog[r])..Len(rpending[r]) :
                       rpending[r][i] \notin ledger

C3_Witness ==
    \E r \in Runs :
        /\ rpc[r] = "failed"
        /\ rfailed[r] # 0
        /\ Len(rlog[r]) >= 2
        /\ Len(rlog[r]) < Len(rpending[r])
        /\ lastStarted = r

\* C4: a run (clear_existing=False) called right after a run that returned
\* executes no migration SQL and leaves the ledger's rows as that run left them.
C4_SecondRunIsNoOp ==
    \A r \in Runs :
        (lastStarted = r /\ rprev[r] = "ok" /\ ~rclear[r]) =>
            /\ rlog[r] = <<>>
            /\ ledgerExists
            /\ ledger = rstart[r].names
            /\ schema = rstart[r].schema

C4_Witness ==
    \E r \in Runs :
        /\ lastStarted = r
        /\ rprev[r] = "ok"
        /\ ~rclear[r]
        /\ rpc[r] = "done"
        /\ ledger = SqlFiles

\* C5: a run with clear_existing=True drops the ledger before the applied set
\* is read: the drop changes nothing but the ledger, every .sql file of the
\* directory is pending in that run, and a run that returns has executed all.
C5_ClearMakesAllPending ==
    \A r \in Runs :
        (lastStarted = r /\ rclear[r]) =>
            /\ (rpc[r] = "verify") =>
                   (~ledgerExists /\ ledger = {} /\ schema = rstart[r].schema)
            /\ (rpc[r] \in {"execute", "record", "done"}) =>
                   rpending[r] = MigrationFiles
            /\ (rpc[r] = "failed" /\ rfailed[r] # 0) =>
                   rpending[r] = MigrationFiles
            /\ (rpc[r] = "done") => rlog[r] = MigrationFiles

C5_Witness ==
    \E r \in Runs :
        /\ lastStarted = r
        /\ rclear[r]
        /\ rpc[r] = "done"
        /\ rstart[r].names = SqlFiles
        /\ rlog[r] = MigrationFiles

(***************************************************************************)
(* Claims about the statement builder                                      *)
(***************************************************************************)
\* the numbers of the placeholders of a text
PlaceholdersOf(text) ==
    {text[i].n : i \in {j \in 1..Len(text) : text[j].k = "ph"}}

FirstAt(text, n) == Min({i \in 1..Len(text) : text[i] = Ph(n)})

\* C6: for any sequence of builder calls, the params build() returns are as
\* many as the distinct $n placeholders of the text it returns, and these are
\* numbered 1..len(params) in the order in which they were appended.
C6_ParamsMatchPlaceholders ==
    bbuilt =>
        LET text == bresult["A"][1]
            params == bresult["A"][2]
            phs == PlaceholdersOf(text)
        IN  /\ Cardinality(phs) = Len(params)
            /\ phs = 1..Len(params)
            /\ \A m, n \in phs : m < n => FirstAt(text, m) < FirstAt(text, n)

\* C7: the text build() returns holds no supplied value: two builders given
\* the same calls with other values return the same text, and every value
\* supplied to a builder is an element of its params.
C7_TextIndependentOfValues ==
    bbuilt =>
        /\ bresult["A"][1] = bresult["B"][1]
        /\ \A x \in Builders : bgiven[x] \subseteq Range(bresult[x][2])

(***************************************************************************)
(* Claims about the executor and the pool                                  *)
(***************************************************************************)
Finished(c) == cpc[c] \in {"returned", "raised"}

\* an exception that comes from the environment of the call, not from its code
Disturbed(c) ==
    cerr[c] \in {"CancelledError", "ConnectionError", "RuntimeError"}

\* C8: of two create calls with the same primary-key value that run at the
\* same time (neither cancelled nor cut off from the database), exactly one
\* returns the created record, the other raises UniqueViolationError, and the
\* table holds a row with that key afterwards.
C8_ExactlyOneCreateSucceeds ==
    \A c1, c2 \in Callers :
        ( /\ pool = "open"
          /\ c1 # c2
          /\ cop[c1] = "create" /\ cop[c2] = "create"
          /\ ckey[c1] = ckey[c2]
          /\ cconc[c1] /\ cconc[c2]
          /\ Finished(c1) /\ Finished(c2)
          /\ ~Disturbed(c1) /\ ~Disturbed(c2) )
        =>
        ( /\ ckey[c1] \in rows
          /\ \/ /\ cpc[c1] = "returned"
                /\ cpc[c2] = "raised" /\ cerr[c2] = "UniqueViolationError"
             \/ /\ cpc[c2] = "returned"
                /\ cpc[c1] = "raised" /\ cerr[c1] = "UniqueViolationError" )

\* C9: every executor call holds at most one connection, inside exactly one
\* transaction, and has given the connection back when it is over, its
\* transaction committed (returned) or rolled back (raised or cancelled).
C9_OneTransactionPerCall ==
    \A c \in Callers :
        (cop[c] \in ExecutorMethods) =>
            /\ ctx[c] <= 1
            /\ (c \in inUse) => ctx[c] = 1
            /\ (Finished(c) /\ cerr[c] # "RuntimeError") =>
                   (ctx[c] = 1 /\ c \notin inUse /\ cwrite[c] = "none")

\* C10: the connections in use never exceed the maximum of the pool, and an
\* executor call made when all are in use is suspended, not failed: it does
\* not end without a connection unless its caller cancels it.
C10_PoolBoundedCallsSuspend ==
    /\ Cardinality(inUse) <= DB_POOL_MAX_SIZE
    /\ \A c \in Callers :
        (cop[c] \in ExecutorMethods /\ cfull[c] /\ Finished(c) /\ ctx[c] = 0)
            => cerr[c] = "CancelledError"

(***************************************************************************)
(* Claims about the registry and the request handlers                      *)
(***************************************************************************)
\* C11: the model registry is loaded before the application serves its first
\* request: in every state in which a request has been received the registry
\* is loaded, and every request that read the registry to obtain its
\* QueryExecutor read it after load_models() had completed.
C11_RegistryLoadedBeforeRequests ==
    \A c \in Callers :
        /\ (hpc[c] # "idle") => initialized
        /\ (hpc[c] \in {"handling", "failed"}) => hloaded[c]

(***************************************************************************)
(* Claims about the calls on one executor                                  *)
(***************************************************************************)
\* C12: the primary-key field name a call computes for its WHERE clause is a
\* field of the model of the executor's table and is that table's primary key.
C12_PkFieldIsPrimaryKey ==
    (last.op \in {"get_by_id", "update", "delete"} /\ last.pk # "") =>
        /\ last.pk \in ModelFields(xtable)
        /\ last.pk = PrimaryKey(xtable)

\* C13: update(id, data, replace=False) changes the primary-key value of no
\* stored record, whatever keys data has: the table's primary-key column is
\* not among the columns the call hands to the UPDATE statement's SET list.
C13_UpdateKeepsPrimaryKey ==
    (last.op = "update" /\ ~last.replace /\ last.payload.set) =>
        /\ PrimaryKey(xtable) \notin DOMAIN last.payload.m
        /\ store = last.store0

\* C14: create(m) with a new key followed by get_by_id of that key: both
\* return, and the record read agrees with m on every field supplied in m (a
\* map comes back as the same map, a text as the same text).
C14_CreateThenGetRoundTrip ==
    ( /\ prev.op = "create"
      /\ last.op = "get_by_id"
      /\ PrimaryKey(xtable) \in DOMAIN prev.data
      /\ prev.data[PrimaryKey(xtable)].n = last.id
      /\ last.id \notin last.store0 )
    =>
    ( /\ prev.out.err = "none"
      /\ last.out.err = "none"
      /\ last.out.result.kind = "record"
      /\ \A k \in DOMAIN prev.data : last.out.result.rec[k] = prev.data[k] )

\* the texts json.loads accepts, among the texts of the model
ParsesAsJson(v) == v.text \in {"{\"a\": 1}"}

\* every str value of a returned record is one that json.loads rejects
StringsKeptOnlyIfNotJson(rec) ==
    \A k \in DOMAIN rec : (rec[k].type = "str") => ~ParsesAsJson(rec[k])

\* C15: a read returns its rows without raising, every string column that
\* parses as JSON replaced by the parsed value and every other string kept:
\* checked on get_by_id of a stored id and on list of a table that has rows.
C15_ReadParsesJsonText ==
    /\ (last.op = "get_by_id" /\ last.id \in last.store0) =>
          /\ last.out.err = "none"
          /\ last.out.result.kind = "record"
          /\ StringsKeptOnlyIfNotJson(last.out.result.rec)
    /\ ( /\ last.op = "list" /\ last.page = 1
         /\ DOMAIN last.filters = {} /\ last.store0 # {} ) =>
          /\ last.out.err = "none"
          /\ last.out.result.kind = "rows"
          /\ Len(last.out.result.rows) > 0
          /\ \A i \in 1..Len(last.out.result.rows) :
                 StringsKeptOnlyIfNotJson(last.out.result.rows[i])

\* C16: delete(id) does not raise; it returns True and removes the row when
\* the id is stored, False and no change when it is not; the boolean comes
\* from the one DELETE statement it sends; get_by_id(id) after delete(id)
\* returns not-found (None).
C16_DeleteReportsAffectedRow ==
    /\ (last.op = "delete") =>
          /\ last.out.err = "none"
          /\ last.out.result.kind = "bool"
          /\ last.out.result.flag = (last.id \in last.store0)
          /\ store = last.store0 \ {last.id}
          /\ Len(last.out.sent) = 1
          /\ last.out.sent[1].kind = "DELETE"
    /\ (prev.op = "delete" /\ last.op = "get_by_id" /\ last.id = prev.id) =>
          /\ last.out.err = "none"
          /\ last.out.result.kind = "null"

C18_PagesDisjoint ==
    ( /\ prev.op = "list" /\ last.op = "list"
      /\ prev.filters = last.filters
      /\ prev.size = last.size
      /\ prev.page # last.page )
    =>
    ( /\ prev.out.err = "none" /\ last.out.err = "none"
      /\ prev.out.result.kind = "rows" /\ last.out.result.kind = "rows"
      /\ Range(prev.out.result.rows) \cap Range(last.out.result.rows) = {} )

\* C19: count(filters) and list(filters, page, size) select the same rows
\* (null-valued filters dropped by both): with n the count, page p of size s
\* holds min(s, max(0, n - (p-1)*s)) records, so the pages sum to n.
C19_CountMatchesList ==
    (prev.op = "count" /\ last.op = "list" /\ prev.filters = last.filters) =>
        /\ prev.out.err = "none" /\ last.out.err = "none"
        /\ prev.out.result.kind = "int" /\ last.out.result.kind = "rows"
        /\ Len(last.out.result.rows) =
              Min({last.size,
                   Max({0, prev.out.result.num
                              - (last.page - 1) * last.size})})

\* the comparison a filter value asks for
ComparisonOf(v) ==
    CASE v.type = "$gte" -> ">="
      [] v.type = "$lte" -> "<="
      [] OTHER           -> "="

\* C20: list sends one SELECT whose WHERE clause has, for each non-null
\* filter, field >= v for a gte bound, field <= v for an lte bound and
\* field = v for a plain value, v passed as a parameter.
C20_ListRangeFilters ==
    (last.op = "list") =>
        /\ last.out.err = "none"
        /\ Len(last.out.sent) = 1
        /\ last.out.sent[1].kind = "SELECT"
        /\ last.out.sent[1].where =
              {[field |-> k, cmp |-> ComparisonOf(last.filters[k]),
                param |-> last.filters[k].n, text |-> last.filters[k].text] :
                  k \in {f \in DOMAIN last.filters :
                            last.filters[f].type # "None"}}

C22_UnmappedModelRaisesAtConstruction ==
    /\ (xmodel # "none" /\ xmodel \notin DOMAIN TABLE_NAME_MAP)
           => (xerr = "ValueError" /\ xtable = "none" /\ last.op = "none")
    /\ xtable # "none"
           => (xmodel \in DOMAIN TABLE_NAME_MAP /\ xtable = TABLE_NAME_MAP[xmodel])
    /\ last.op # "none" => xtable \in MappedTables

\* the constructor was given the model Session, which has no table mapping
C22_Witness ==
    /\ xmodel = "Session"
    /\ xerr = "ValueError"

\* C23: the list get_table_info returns has one TableInfo for each base
\* table of the schema, and the columns list of each holds every column of
\* the table once, in ordinal order, with is_primary_key set exactly for the
\* columns of the primary-key constraint, whatever key constraints the
\* columns are in.
C23_EachColumnOnce ==
    tinfo # <<>> =>
        /\ Len(tinfo) = Cardinality(BaseTables)
        /\ \A t \in BaseTables :
               \E i \in 1..Len(tinfo) :
                   /\ tinfo[i].name = t
                   /\ tinfo[i].columns =
                          [c \in Columns |->
                              [name |-> c,
                               is_primary_key |->
                                   [table |-> t, column |-> c,
                                    type |-> "PRIMARY KEY"] \in keyUsage]]

\* the number of RETURNING keywords of a text
ReturningCount(sql) ==
    Cardinality({i \in 1..Len(sql) : sql[i] = Kw("RETURNING")})

\* C24: the text of a builder never holds more than one RETURNING clause,
\* and a returning() call on a text that holds one already (from insert or
\* from an earlier returning()) leaves the builder as it was.
C24_AtMostOneReturning ==
    /\ [](\A x \in Builders : ReturningCount(bld[x].sql) <= 1)
    /\ [][\A columns \in ReturningColumns :
             (/\ CallReturning(columns)
              /\ ReturningCount(bld["A"].sql) >= 1)
                 => bld' = bld]_vars

\* returning() was called twice on an insert builder: two chained calls
\* have been made and the text is still the text insert gave
C24_Witness ==
    /\ bphase = "seeded"
    /\ bcalls = 2
    /\ bld["A"].sql[1] = Kw("INSERT INTO")
    /\ bld["A"].sql[Len(bld["A"].sql) - 1] = Kw("RETURNING")
    /\ ReturningCount(bld["A"].sql) = 1

\* the keywords WHERE, AND and OR of a text, in text order
IsJoiner(tok) == tok \in {Kw("WHERE"), Kw("AND"), Kw("OR")}

Joiners(sql) == SelectSeq(sql, IsJoiner)

\* the text a where-family call gives, by the rule of the claim: WHERE
\* before the first condition, the joiner of the method before a later one
Joined(sql, joiner, cond) ==
    sql \o <<IF Joiners(sql) = <<>> THEN Kw("WHERE") ELSE Kw(joiner)>> \o cond

\* C25: the text holds at most one WHERE keyword, and it is the first of
\* the keywords WHERE, AND, OR; the first where, and_where or or_where call
\* writes WHERE and its condition, whichever method it is, and each later
\* call appends AND (where, and_where) or OR (or_where) and its condition.
C25_OneWhereThenJoiners ==
    /\ [](\A x \in Builders :
             LET j == Joiners(bld[x].sql)
             IN  /\ j # <<>> => j[1] = Kw("WHERE")
                 /\ \A i \in 2..Len(j) : j[i] # Kw("WHERE")
                 /\ bld[x].has_where <=> j # <<>>)
    /\ [][\A cond \in Conditions, x \in Builders :
             /\ (CallWhere(cond) \/ CallAndWhere(cond))
                    => bld'[x].sql = Joined(bld[x].sql, "AND", cond)
             /\ CallOrWhere(cond)
                    => bld'[x].sql = Joined(bld[x].sql, "OR", cond)]_vars

\* three conditions: the first after WHERE, the second after OR, the third
\* after AND
C25_Witness ==
    /\ bphase = "seeded"
    /\ Joiners(bld["A"].sql) = <<Kw("WHERE"), Kw("OR"), Kw("AND")>>
    /\ bcalls = 3

\* C26: a call of count, get_by_id, list, create, update or delete never
\* raises while it builds its statement through SQLBuilder: it goes on to
\* db.transaction(), and a call that has returned has sent its one statement
\* in its one transaction.
C26_StatementBuiltAndSent ==
    \A c \in Callers :
        cop[c] \in ExecutorMethods =>
            /\ cerr[c] # "AttributeError"
            /\ cpc[c] = "returned" => ctx[c] = 1

\* C27: once the registry is loaded, the dependency of a request to any
\* routed table gets its QueryExecutor: the class name of the model the
\* registry holds for the table is a key of TABLE_NAME_MAP, and the entry is
\* the table of the router.
C27_RoutedTablesAreMapped ==
    \A c \in Callers :
        (hpc[c] \in {"handling", "failed"} /\ hloaded[c]) =>
            /\ GetModel(htable[c]) \in DOMAIN TABLE_NAME_MAP
            /\ TABLE_NAME_MAP[GetModel(htable[c])] = htable[c]
            /\ hpc[c] = "handling"
            /\ herr[c] = "none"

\* the load_models() calls that have ended and were made while the registry
\* was not loaded
FreshLoads ==
    {l \in Loaders :
        lkind[l] = "load_models" /\ ~linit[l] /\ lpc[l] \in {"returned", "raised"}}

\* C28: of two or more load_models() calls made on a registry that is not
\* loaded, at most one invokes generate_models, and one assigns the model
\* map.
C28_IntrospectedOnce ==
    Cardinality(FreshLoads) >= 2 =>
        /\ Cardinality({l \in FreshLoads : lgen[l]}) <= 1
        /\ Cardinality({l \in FreshLoads : lset[l]}) = 1

\* C29: a call that enters db.transaction() while the pool is not open
\* (before connect, after disconnect) gets RuntimeError and no connection;
\* a connection is held only while the pool is open.
C29_TransactionNeedsOpenPool ==
    /\ \A c \in Callers :
           cpool[c] \in {"unset", "closed"} =>
               /\ cerr[c] = "RuntimeError"
               /\ ctx[c] = 0
    /\ inUse # {} => pool = "open"

\* C30: count with a filter that has both a gte and an lte bound on a field
\* sends one SELECT COUNT(*) whose WHERE clause holds field >= lower and
\* field <= upper.
C30_CountUsesBothBounds ==
    (last.op = "count") =>
        \A k \in DOMAIN last.filters :
            last.filters[k].type = "$gte$lte" =>
                /\ last.out.err = "none"
                /\ Len(last.out.sent) = 1
                /\ {[field |-> k, cmp |-> ">=", param |-> last.filters[k].n,
                     text |-> ""],
                    [field |-> k, cmp |-> "<=", param |-> last.filters[k].hi,
                     text |-> ""]}
                       \subseteq last.out.sent[1].where
====
